---- MODULE Spec2Model ----
(***************************************************************************)
(* Smriti backend (src/backend/main.py, src/backend/database.py).          *)
(*                                                                         *)
(* Four specifications share this module:                                  *)
(*   Spec        the import endpoint, the background embedding task, the   *)
(*               status endpoint and the retrieval read, running           *)
(*               concurrently on the single SQLAlchemy session created in  *)
(*               lifespan();                                               *)
(*   QASpec      the digital_twin_qa request;                              *)
(*   BudgetSpec  the context budgeter of digital_twin_qa (lines 346-358)   *)
(*               as a function of the entries handed to it;                *)
(*   CoSpec      post_co_occurrence as a function of request and entries.  *)
(*                                                                         *)
(* main.py refers to JournalEntry.embedding at lines 112, 120, 295 and     *)
(* 299. The mapped class (database.py lines 22-27) declares id,            *)
(* entry_date, content and tags, and no embedding: the filter expressions  *)
(* of lines 112 and 295 raise AttributeError whenever they are evaluated.  *)
(***************************************************************************)
EXTENDS Integers, Sequences, FiniteSets, TLC

\* Number of distinct entry dates the import directory can ever hold.
MaxDates == 3
\* Number of executor threads that run the background task concurrently.
MaxWorkers == 2

\* Number of import requests that add entries served in one execution.
MaxImports == 2

Dates == 1..MaxDates
Workers == 1..MaxWorkers

VARIABLES
    embedding_status,  \* the global dict: status, progress, total
    db_entries,        \* committed rows of table "entries", indexed by id
    session_new,       \* rows added to the session by db.add_all, not flushed
    pending_tasks,     \* tasks handed to the executor, not yet started
    worker,            \* per executor thread: position in run_embedding_generation
    prev_end,          \* history: how the last run ended, if it ran undisturbed
    importer,          \* position of the import request being served, and
                       \* the number of requests served that added entries
    closed,            \* lifespan has closed the session (shutdown)
    polled,            \* the status response, as far as it has been built
    reader,            \* position of the status response: 0 when none is being built
    search_result,     \* how the last semantic_search ended
    qa_env,            \* QASpec: the request and what the generator returns to it
    qa,                \* QASpec: the last digital_twin_qa request and its outcome
    ranked_entries,    \* BudgetSpec: year of the date and content length of each
                       \* entry handed to the budgeter, in rank order
    context,           \* BudgetSpec: what the budgeter built from them
    co_entries,        \* CoSpec: content of each row of table "entries"
    co_env,            \* CoSpec: the request and the order list(set(...)) yields
    co_result          \* CoSpec: what the last post_co_occurrence returned

job_vars == <<embedding_status, db_entries, session_new, pending_tasks, worker,
              importer, closed, prev_end, polled, reader, search_result>>

qa_vars == <<qa_env, qa>>

budget_vars == <<ranked_entries, context>>

co_vars == <<co_entries, co_env, co_result>>

rest_vars == <<qa_vars, budget_vars, co_vars>>

vars == <<job_vars, rest_vars>>

----------------------------------------------------------------------------
(* The storage session.                                                    *)

\* The content of the file dated d (one file per date).
ContentOf(d) == d

Ids == 1..Len(db_entries)

\* The rows after a flush of the session: the INSERT of the pending new
\* objects, in the order they were added. (No run ever assigns an attribute
\* of a stored entry, so a flush has nothing else to write.)
FlushedAll == db_entries \o session_new

ExistingDates == {db_entries[id].entry_date : id \in Ids}

----------------------------------------------------------------------------
(* Worker positions.                                                       *)

\* History kept for the claims about successive runs; the code keeps none of it.
\* prev_end is how the run that ended last left the store, when that run was
\* undisturbed; a worker's alone, fresh and after say whether its run overlapped
\* another, whether rows were added since it began, and the prev_end it
\* started from.
\* History value: no undisturbed run has just ended.
NoRun == [valid |-> FALSE, rows |-> <<>>]

\* started: the run has made its start transition (line 116).
IdleWorker == [pc |-> "idle", started |-> FALSE, failed |-> FALSE,
               alone |-> TRUE, fresh |-> TRUE, after |-> NoRun]

\* Positions between the query and the final status write.
Running(w) == worker[w].pc \notin {"idle", "done"}

\* Positions between setting status "processing" (line 116) and the final
\* "idle" (line 126).
Processing(w) == worker[w].started /\ worker[w].pc \in {"rollback", "finally"}

\* History: another run's query, or a flush that adds rows, disturbs a run.
Disturb(w, byQuery) ==
    IF Running(w)
    THEN [worker[w] EXCEPT !.alone = IF byQuery THEN FALSE ELSE @,
                           !.fresh = IF byQuery THEN @ ELSE FALSE]
    ELSE worker[w]

\* History: the workers after a flush of the session, which adds the rows of
\* session_new if there are any.
AfterFlush(wk) ==
    IF session_new = <<>> THEN wk
    ELSE [x \in Workers |-> Disturb(x, FALSE)]

----------------------------------------------------------------------------
(* run_embedding_generation, one action per atomic step.                   *)

\* The status is set to processing as soon as the task starts, before the query.
JobQuery_StartsFirst(w) ==
    /\ pending_tasks > 0
    /\ ~Running(w)
    /\ \A y \in Workers : y < w => Running(y)
    /\ pending_tasks' = pending_tasks - 1
    /\ embedding_status' = [embedding_status EXCEPT !.status = "processing"]
    /\ worker' = [x \in Workers |->
          IF x = w
          THEN [pc |-> "rollback", started |-> TRUE, failed |-> TRUE,
                alone |-> \A y \in Workers \ {w} : ~Running(y),
                fresh |-> TRUE, after |-> prev_end]
          ELSE Disturb(x, TRUE)]
    /\ UNCHANGED <<db_entries, session_new, importer, closed, prev_end, polled,
                   reader, search_result, rest_vars>>

\* An executor thread takes a pending task and runs lines 110-112.
\* Executor threads are interchangeable: the free thread of least index runs it.
\* The filter expression of line 112, JournalEntry.embedding.is_(None), raises
\* AttributeError inside the try: the run skips lines 113-122, never makes its
\* start transition and goes to the except clause.
JobQuery(w) ==
    /\ pending_tasks > 0
    /\ ~Running(w)
    /\ \A y \in Workers : y < w => Running(y)
    /\ pending_tasks' = pending_tasks - 1
    /\ worker' = [x \in Workers |->
          IF x = w
          THEN [pc |-> "rollback", started |-> FALSE, failed |-> TRUE,
                alone |-> \A y \in Workers \ {w} : ~Running(y),
                fresh |-> TRUE, after |-> prev_end]
          ELSE Disturb(x, TRUE)]
    /\ UNCHANGED <<embedding_status, db_entries, session_new, importer, closed,
                   prev_end, polled, reader, search_result, rest_vars>>

\* The except clause commits instead of rolling back.
JobRollback_Commits(w) ==
    /\ worker[w].pc = "rollback"
    /\ db_entries' = FlushedAll
    /\ session_new' = <<>>
    /\ worker' = [worker EXCEPT ![w].pc = "finally"]
    /\ UNCHANGED <<embedding_status, pending_tasks, importer, closed, prev_end,
                   polled, reader, search_result, rest_vars>>

\* Lines 123-124: db.rollback() expunges the new objects an import has added
\* to the shared session and not yet committed; it changes no row.
JobRollback(w) ==
    /\ worker[w].pc = "rollback"
    /\ session_new' = <<>>
    /\ worker' = [worker EXCEPT ![w].pc = "finally"]
    /\ UNCHANGED <<embedding_status, db_entries, pending_tasks, importer, closed,
                   prev_end, polled, reader, search_result, rest_vars>>

\* The finally clause also counts the run in progress.
JobFinish_CountsRun(w) ==
    /\ worker[w].pc = "finally"
    /\ embedding_status' = [embedding_status EXCEPT !.status = "idle",
                                                    !.progress = @ + 1]
    /\ worker' = [worker EXCEPT ![w].pc = "done"]
    /\ prev_end' = IF worker[w].alone /\ worker[w].fresh
                   THEN [valid |-> TRUE, rows |-> db_entries]
                   ELSE NoRun
    /\ UNCHANGED <<db_entries, session_new, pending_tasks, importer, closed,
                   polled, reader, search_result, rest_vars>>

\* The finally clause writes the wrong state.
JobFinish_WrongState(w) ==
    /\ worker[w].pc = "finally"
    /\ embedding_status' = [embedding_status EXCEPT !.status = "processing"]
    /\ worker' = [worker EXCEPT ![w].pc = "done"]
    /\ prev_end' = IF worker[w].alone /\ worker[w].fresh
                   THEN [valid |-> TRUE, rows |-> db_entries]
                   ELSE NoRun
    /\ UNCHANGED <<db_entries, session_new, pending_tasks, importer, closed,
                   polled, reader, search_result, rest_vars>>

\* Lines 125-126, under status_lock.
JobFinish(w) ==
    /\ worker[w].pc = "finally"
    /\ embedding_status' = [embedding_status EXCEPT !.status = "idle"]
    /\ worker' = [worker EXCEPT ![w].pc = "done"]
    /\ prev_end' = IF worker[w].alone /\ worker[w].fresh
                   THEN [valid |-> TRUE, rows |-> db_entries]
                   ELSE NoRun
    /\ UNCHANGED <<db_entries, session_new, pending_tasks, importer, closed,
                   polled, reader, search_result, rest_vars>>

----------------------------------------------------------------------------
(* Endpoints. Requests are served while the application is up; the executor *)
(* threads run beside them and share the session.                           *)

\* What os.listdir("/data") can return: the files, one per date, in any order.
Listings ==
    UNION {{l \in [1..n -> Dates] : \A i, j \in 1..n : l[i] = l[j] => i = j} :
              n \in 0..MaxDates}

\* Lines 161-162: the parsed entries whose date is not stored, in listing order.
unique_new(listing) == SelectSeq(listing, LAMBDA d : d \notin ExistingDates)

NewRows(dates) ==
    [k \in 1..Len(dates) |->
        [entry_date |-> dates[k], content |-> ContentOf(dates[k])]]

\* POST /api/import, lines 138-163 up to db.add_all(): the listing is parsed,
\* the stored dates are read and the new entries are added to the session.
\* Requests run one at a time on the event loop (the handler never awaits);
\* the executor threads go on between this step and the next two. The steps up
\* to add_all are one action: no thread changes a stored date.
import_entries(listing) ==
    /\ ~closed
    /\ importer.pc = "idle"
    /\ unique_new(listing) # <<>> => importer.served < MaxImports
    /\ IF unique_new(listing) # <<>>
       THEN /\ session_new' = session_new \o NewRows(unique_new(listing))
            /\ importer' = [pc |-> "commit", served |-> importer.served + 1]
            /\ UNCHANGED <<embedding_status, db_entries, pending_tasks, worker,
                           closed, prev_end, polled, reader, search_result,
                           rest_vars>>
       ELSE UNCHANGED vars

\* Line 164: db.commit() flushes the session: the new entries still pending.
import_commit ==
    /\ importer.pc = "commit"
    /\ db_entries' = FlushedAll
    /\ session_new' = <<>>
    /\ importer' = [importer EXCEPT !.pc = "submit"]
    /\ worker' = AfterFlush(worker)
    /\ prev_end' = IF session_new = <<>> THEN prev_end ELSE NoRun
    /\ UNCHANGED <<embedding_status, pending_tasks, closed, polled, reader,
                   search_result, rest_vars>>

\* Line 165: loop.run_in_executor(executor, run_embedding_generation, db).
import_submit ==
    /\ importer.pc = "submit"
    /\ pending_tasks' = pending_tasks + 1
    /\ importer' = [importer EXCEPT !.pc = "idle"]
    /\ UNCHANGED <<embedding_status, db_entries, session_new, worker, closed,
                   prev_end, polled, reader, search_result, rest_vars>>

\* The keys of embedding_status in the order the dict holds them (line 38).
StatusKeys == <<"status", "progress", "total">>

\* The response before any key of it is read.
NoResponse == [status |-> "none", progress |-> 0, total |-> 0]

\* GET /api/import/status: under status_lock the handler returns the dict
\* itself, not a copy; the response is built from it after the lock is released.
get_import_status ==
    /\ ~closed
    /\ reader = 0
    /\ reader' = 1
    /\ polled' = NoResponse
    /\ UNCHANGED <<embedding_status, db_entries, session_new, pending_tasks,
                   worker, importer, closed, prev_end, search_result, rest_vars>>

\* The response is built from the returned dict one key at a time, outside
\* the lock, while the executor threads go on writing to it.
serialize_response ==
    /\ reader \in 1..Len(StatusKeys)
    /\ polled' = [polled EXCEPT ![StatusKeys[reader]] = embedding_status[StatusKeys[reader]]]
    /\ reader' = IF reader = Len(StatusKeys) THEN 0 ELSE reader + 1
    /\ UNCHANGED <<embedding_status, db_entries, session_new, pending_tasks,
                   worker, importer, closed, prev_end, search_result, rest_vars>>

\* lifespan after the yield, line 70: app.state.db.close() once no request is
\* being served; the session drops the objects it holds. Line 71, the
\* executor's shutdown, then waits for the runs under way and the queued tasks,
\* which go on using the closed session (it begins a new transaction on its
\* next use).
lifespan_shutdown ==
    /\ ~closed
    /\ importer.pc = "idle"
    /\ reader = 0
    /\ closed' = TRUE
    /\ session_new' = <<>>
    /\ UNCHANGED <<embedding_status, db_entries, pending_tasks, worker, importer,
                   prev_end, polled, reader, search_result, rest_vars>>

----------------------------------------------------------------------------
(* semantic_search (lines 291-306).                                        *)

\* How a search request ends: the entries returned, or the exception that
\* line 295 raises because JournalEntry has no embedding attribute.
NoSearch == [outcome |-> "none", entries |-> <<>>]
SearchError == [outcome |-> "error", entries |-> <<>>]
SearchReturned(entries) == [outcome |-> "returned", entries |-> entries]

\* The filter on the embedding is dropped: the query returns every row.
semantic_search_NoFilter(rows) == SearchReturned([id \in 1..Len(rows) |-> id])

\* Lines 293-295 on the rows of the table: the filter expression of line 295,
\* JournalEntry.embedding.is_not(None), raises AttributeError before any row
\* is read, whatever the table holds.
semantic_search(rows) == SearchError

\* POST /api/search/semantic on the shared session.
search_on_session ==
    /\ ~closed
    /\ search_result' = semantic_search(db_entries)
    /\ UNCHANGED <<embedding_status, db_entries, session_new, pending_tasks,
                   worker, importer, closed, prev_end, polled, reader, rest_vars>>

----------------------------------------------------------------------------
(* digital_twin_qa (lines 329-412). Text is a sequence of tokens.          *)

Queries == {<<"how", " ", "job">>, <<"job">>}

\* Longest completion the generator returns for a query expansion.
MaxExpansion == 3

ExpansionTokens == {" ", "work", "boss"}

\* Outcomes of llm.create_completion: it raises, or returns a text.
Raised == [raised |-> TRUE, text |-> <<>>]

ExpansionOutcomes ==
    {Raised} \cup {[raised |-> FALSE, text |-> t] :
                     t \in UNION {[1..n -> ExpansionTokens] : n \in 0..MaxExpansion}}

\* Line 344: the answer returned when retrieval finds nothing.
CannedAnswer ==
    <<"Based on my journal entries, I don't have a strong memory of that.", " ",
      "Try rephrasing your question or asking about something else.">>

IsSpace(tok) == tok \in {" ", "\n"}

\* str.strip()
RECURSIVE strip(_)
strip(t) ==
    IF t = <<>> THEN t
    ELSE IF IsSpace(Head(t)) THEN strip(Tail(t))
    ELSE IF IsSpace(t[Len(t)]) THEN strip(SubSeq(t, 1, Len(t) - 1))
    ELSE t

\* _expand_query_for_retrieval (lines 312-327), given what the model returned.
expand_query_for_retrieval(completion) == strip(completion.text)

\* f"{qa_req.query}, {expanded_terms}" (line 337)
RichQuery(query, expanded_terms) == query \o <<",", " ">> \o expanded_terms

NoQA == [outcome |-> "none", query |-> <<>>, expansion |-> "none",
         llm_calls |-> <<>>, searched |-> FALSE, search_query |-> <<>>,
         answer |-> <<>>]

\* Lines 333-341: the request as a function of what the generator returns.
\* The expansion is called unguarded at line 336; semantic_search is then
\* called at line 341 with the rich query, raises at its line 295, and the
\* request fails there: lines 343-412 are never reached.
qa_result(query, expansion) ==
    LET asked == [NoQA EXCEPT !.query = query, !.llm_calls = <<"expand">>,
                              !.expansion = IF expansion.raised THEN "raised"
                                            ELSE IF strip(expansion.text) = <<>> THEN "empty"
                                            ELSE "text"]
    IN IF expansion.raised
       THEN [asked EXCEPT !.outcome = "error"]
       ELSE LET rich_query == RichQuery(query, expand_query_for_retrieval(expansion))
            IN [asked EXCEPT !.searched = TRUE, !.search_query = rich_query,
                             !.outcome = "error"]

\* A request and what the generator returns to it.
EnvFamily == [query : Queries, expansion : ExpansionOutcomes]

NoEnv == [query |-> <<>>, expansion |-> Raised]

\* POST /api/generate/qa
digital_twin_qa ==
    /\ qa' = qa_result(qa_env.query, qa_env.expansion)
    /\ UNCHANGED <<job_vars, qa_env, budget_vars, co_vars>>

----------------------------------------------------------------------------
(* The context budgeter of digital_twin_qa (lines 346-358), on its own.    *)
(* No request reaches it on this tree (line 341 raises first); it is       *)
(* applied here to the list of entries it is written for.                  *)

\* A safe character limit (line 349).
SAFE_CHAR_LIMIT == 4000

\* Most entries in a retrieval result handed to the budgeter.
MaxStore == 3

ContentLens == {475, 1975, 2975, 3976}

\* Years of entry dates: import_entries takes any year from 1 on (line 151).
Years == {5, 999, 2024}

\* Number of decimal digits of n > 0.
RECURSIVE digits(_)
digits(n) == IF n < 10 THEN 1 ELSE 1 + digits(n \div 10)

\* len(entry_date.strftime('%Y-%m-%d')) (line 352): the year is not padded,
\* month and day are two digits each.
strftime_len(year) == digits(year) + 1 + 2 + 1 + 2

\* len(f"Memory from {entry_date}:\n{entry.content}\n") (line 353).
BlockLen(entry) == 12 + strftime_len(entry.year) + 2 + entry.content + 1

\* The budget test is off by one.
OverBudget_OffByOne(total_chars, block_len) == total_chars + block_len >= SAFE_CHAR_LIMIT

\* Line 354.
OverBudget(total_chars, block_len) == total_chars + block_len > SAFE_CHAR_LIMIT

\* The loop of lines 351-357 from the k-th entry on; context_list holds the
\* ranks of the entries included.
RECURSIVE budget_from(_, _, _, _)
budget_from(relevant, k, context_list, total_chars) ==
    IF k > Len(relevant)
    THEN [context_list |-> context_list, total_chars |-> total_chars]
    ELSE LET block_len == BlockLen(relevant[k]) IN
         IF OverBudget(total_chars, block_len)
         THEN [context_list |-> context_list, total_chars |-> total_chars]
         ELSE budget_from(relevant, k + 1, Append(context_list, k),
                          total_chars + block_len)

\* Lines 347-357.
budget(relevant) == budget_from(relevant, 1, <<>>, 0)

RankedFamily ==
    UNION {[1..n -> [year : Years, content : ContentLens]] : n \in 0..MaxStore}

NoContext == [budgeted |-> FALSE, context_list |-> <<>>, total_chars |-> 0]

BudgetInitNone ==
    /\ ranked_entries = <<>>
    /\ context = NoContext

\* Lines 346-358 applied to ranked_entries.
context_budgeter ==
    /\ context' = [budgeted |-> TRUE,
                   context_list |-> budget(ranked_entries).context_list,
                   total_chars |-> budget(ranked_entries).total_chars]
    /\ UNCHANGED <<job_vars, qa_vars, ranked_entries, co_vars>>

----------------------------------------------------------------------------
(* post_co_occurrence (lines 263-274). Text is a sequence of characters.   *)

\* CoOccurrenceRequest.entities: Field(..., min_length=2, max_length=4).
MinEntities == 2
MaxEntities == 4
\* Largest number of entries in the table.
MaxCoEntries == 2

\* The entity strings requested: "a", "A", "ab" and "_". None holds "%".
CoEntities == {<<"a">>, <<"A">>, <<"a", "b">>, <<"_">>}
\* The entry contents stored: "abA_", "ba", "aA_" and "b".
CoContents == {<<"a", "b", "A", "_">>, <<"b", "a">>, <<"a", "A", "_">>, <<"b">>}

Range(seq) == {seq[k] : k \in 1..Len(seq)}

\* Python's  entity in entry : a literal, case-sensitive substring test.
Contains(entity, entry) ==
    \E k \in 0..(Len(entry) - Len(entity)) :
        \A j \in 1..Len(entity) : entry[k + j] = entity[j]

\* SQLite folds ASCII case when it compares characters in LIKE.
fold(c) == IF c = "A" THEN "a" ELSE c

\* One pattern character of LIKE against one character: "_" matches any.
like_char(p, c) == p = "_" \/ fold(p) = fold(c)

\* JournalEntry.content.like(f"%{entity}%")
like(content, entity) ==
    \E k \in 0..(Len(content) - Len(entity)) :
        \A j \in 1..Len(entity) : like_char(entity[j], content[k + j])

\* The orders list(set(req.entities)) can produce: any order of the distinct
\* entities, since the iteration order of a set of strings is not fixed.
ListsOfSet(S) ==
    {p \in [1..Cardinality(S) -> S] : \A i, j \in 1..Cardinality(S) : p[i] = p[j] => i = j}

\* base_query: the contents matched by the or_ of the LIKE filters, in row order.
relevant_entries(entries, entity_list) ==
    SelectSeq(entries, LAMBDA content : \E entity \in Range(entity_list) : like(content, entity))

\* itertools.combinations over positions lo..n, r at a time, in its order.
RECURSIVE combinations_from(_, _, _)
combinations_from(lo, n, r) ==
    IF r = 0 THEN << <<>> >>
    ELSE IF lo > n THEN <<>>
    ELSE LET with == combinations_from(lo + 1, n, r - 1)
         IN [k \in 1..Len(with) |-> <<lo>> \o with[k]] \o combinations_from(lo + 1, n, r)

\* combinations(entity_list, i), each combo as a list of entities.
combinations(entity_list, i) ==
    LET idx == combinations_from(1, Len(entity_list), i)
    IN [k \in 1..Len(idx) |-> [j \in 1..Len(idx[k]) |-> entity_list[idx[k][j]]]]

\* for i in range(1, len(entity_list) + 1): for combo in combinations(...)
RECURSIVE combos_upto(_, _)
combos_upto(entity_list, i) ==
    IF i = 0 THEN <<>>
    ELSE combos_upto(entity_list, i - 1) \o combinations(entity_list, i)

\* A variant that counts the entries holding any entity of the combo.
count_Any(relevant, combo_list) ==
    Cardinality({k \in 1..Len(relevant) :
                    \E entity \in Range(combo_list) : Contains(entity, relevant[k])})

\* sum(1 for entry in relevant_entries if all(entity in entry for entity in combo_list))
count(relevant, combo_list) ==
    Cardinality({k \in 1..Len(relevant) :
                    \A entity \in Range(combo_list) : Contains(entity, relevant[k])})

\* The list post_co_occurrence returns.
co_occurrence(entries, entity_list) ==
    LET relevant == relevant_entries(entries, entity_list)
        combos == combos_upto(entity_list, Len(entity_list))
        kept == SelectSeq(combos, LAMBDA combo_list : count(relevant, combo_list) > 0)
    IN [k \in 1..Len(kept) |-> [key |-> kept[k], data |-> count(relevant, kept[k])]]

\* The requests pydantic accepts, each with an order of its distinct entities.
Seqs(S, lo, hi) == UNION {[1..n -> S] : n \in lo..hi}

CoEnvs ==
    UNION {{[entities |-> es, entity_list |-> l] : l \in ListsOfSet(Range(es))} :
              es \in Seqs(CoEntities, MinEntities, MaxEntities)}

NoCoEnv == [entities |-> <<>>, entity_list |-> <<>>]
NoCoResult == [returned |-> FALSE, results |-> <<>>]

CoInitNone ==
    /\ co_entries = <<>>
    /\ co_env = NoCoEnv
    /\ co_result = NoCoResult

\* POST /api/analysis/co-occurrence
post_co_occurrence ==
    /\ co_result' = [returned |-> TRUE,
                     results |-> co_occurrence(co_entries, co_env.entity_list)]
    /\ UNCHANGED <<job_vars, qa_vars, budget_vars, co_entries, co_env>>

----------------------------------------------------------------------------

JobInit ==
    /\ embedding_status = [status |-> "idle", progress |-> 0, total |-> 0]
    /\ db_entries = <<>>
    /\ session_new = <<>>
    /\ pending_tasks = 0
    /\ worker = [w \in Workers |-> IdleWorker]
    /\ importer = [pc |-> "idle", served |-> 0]
    /\ closed = FALSE
    /\ prev_end = NoRun
    /\ polled = NoResponse
    /\ reader = 0
    /\ search_result = NoSearch

QAInitNone ==
    /\ qa_env = NoEnv
    /\ qa = NoQA

Init == JobInit /\ QAInitNone /\ BudgetInitNone /\ CoInitNone

\* Imports, background runs, status polls and retrieval reads.
Next ==
    \/ \E w \in Workers : JobQuery(w)
    \/ \E w \in Workers : JobRollback(w)
    \/ \E w \in Workers : JobFinish(w)
    \/ \E listing \in Listings : import_entries(listing)
    \/ import_commit
    \/ import_submit
    \/ get_import_status
    \/ serialize_response
    \/ search_on_session
    \/ lifespan_shutdown

Spec == Init /\ [][Next]_vars

\* QA requests.
QAInit ==
    /\ JobInit
    /\ qa_env \in EnvFamily
    /\ qa = NoQA
    /\ BudgetInitNone
    /\ CoInitNone

QANext == digital_twin_qa

QASpec == QAInit /\ [][QANext]_vars

\* The budgeter over any ranked list of entries.
BudgetInit ==
    /\ JobInit
    /\ QAInitNone
    /\ ranked_entries \in RankedFamily
    /\ context = NoContext
    /\ CoInitNone

BudgetNext == context_budgeter

BudgetSpec == BudgetInit /\ [][BudgetNext]_vars

\* Co-occurrence requests over any table of entries.
CoInit ==
    /\ JobInit
    /\ QAInitNone
    /\ BudgetInitNone
    /\ co_entries \in Seqs(CoContents, 0, MaxCoEntries)
    /\ co_env \in CoEnvs
    /\ co_result = NoCoResult

CoNext == post_co_occurrence

CoSpec == CoInit /\ [][CoNext]_vars

----------------------------------------------------------------------------
(* Properties of the background task and its status.                       *)

\* The step of worker w that ends its run (the finally clause).
Ends(w) == worker[w].pc = "finally" /\ worker'[w].pc = "done"

WithinTotal(st) == 0 <= st.progress /\ st.progress <= st.total

\* A status response has been built in full and it is polled.
Returned == reader = 0 /\ polled # NoResponse

C2_ResetAfterRun ==
    [][\A w \in Workers :
          Ends(w) => embedding_status' = [status |-> "idle", progress |-> 0, total |-> 0]]_vars

\* A failed run has ended and a status read made after it returned idle, 0, 0.
C2_Witness ==
    /\ \E w \in Workers : worker[w].pc = "done" /\ worker[w].failed
    /\ pending_tasks = 0
    /\ \A w \in Workers : ~Running(w)
    /\ Returned
    /\ polled = [status |-> "idle", progress |-> 0, total |-> 0]

InSuccession(w) == worker[w].after.valid /\ worker[w].alone /\ worker[w].fresh

\* C6: a run that follows another with no new entry in between ends with the
\* stored entries the first run left (no entry has an embedding, before or
\* after), and with status idle.
C6_SecondRunChangesNothing ==
    [][\A w \in Workers :
          (Ends(w) /\ InSuccession(w)) =>
              /\ db_entries' = worker[w].after.rows
              /\ embedding_status'.status = "idle"]_vars

\* A second run in succession has ended on a table that holds entries.
C6_Witness ==
    \E w \in Workers :
        /\ worker[w].pc = "done"
        /\ InSuccession(w)
        /\ worker[w].after.rows # <<>>
        /\ db_entries = worker[w].after.rows
        /\ embedding_status.status = "idle"

\* Run w is between its start transition and its commit or rollback.
Working(w) == worker[w].started /\ worker[w].pc = "rollback"

----------------------------------------------------------------------------
(* Properties of the co-occurrence analysis.                               *)

KeySet(result) == Range(result.key)

\* The number of entries of the table containing every entity of S.
EntriesContainingAll(S) ==
    Cardinality({k \in 1..Len(co_entries) :
                    \A entity \in S : Contains(entity, co_entries[k])})

\* C11: a request of N entities returns at most 2^N - 1 results; each result is
\* for a non-empty subset of the requested entities, with a count > 0 equal to
\* the number of entries containing every entity of the subset; every such
\* subset with a count > 0 has exactly one result; and the count of a subset
\* never exceeds the count returned for any single entity it contains.
C11_OneResultPerCoOccurringSubset ==
    co_result.returned =>
        LET N == Len(co_env.entities)
            requested == Range(co_env.entities)
            results == co_result.results
        IN /\ N \in MinEntities..MaxEntities
           /\ Len(results) <= 2^N - 1
           /\ \A k \in 1..Len(results) :
                 /\ KeySet(results[k]) # {}
                 /\ KeySet(results[k]) \subseteq requested
                 /\ Len(results[k].key) = Cardinality(KeySet(results[k]))
                 /\ results[k].data > 0
                 /\ results[k].data = EntriesContainingAll(KeySet(results[k]))
                 /\ \A entity \in KeySet(results[k]) :
                       \E j \in 1..Len(results) :
                           /\ results[j].key = <<entity>>
                           /\ results[k].data <= results[j].data
           /\ \A S \in (SUBSET requested) \ {{}} :
                 EntriesContainingAll(S) > 0 =>
                     Cardinality({k \in 1..Len(results) : KeySet(results[k]) = S}) = 1

\* A request of four distinct entities answered with some but not all of the
\* fifteen subsets, one of them of several entities and rarer than one of its
\* entities alone.
C11_Witness ==
    /\ co_result.returned
    /\ Cardinality(Range(co_env.entities)) = MaxEntities
    /\ Len(co_result.results) \in 2..(2^MaxEntities - 2)
    /\ \E k, j \in 1..Len(co_result.results) :
          /\ Len(co_result.results[k].key) >= 2
          /\ Len(co_result.results[j].key) = 1
          /\ co_result.results[j].key[1] \in KeySet(co_result.results[k])
          /\ co_result.results[k].data < co_result.results[j].data

----------------------------------------------------------------------------
(* Properties of retrieval, of the QA request and of the budgeter.         *)

\* C7: a request made when no entry has an embedding returns the canned
\* answer and does not call the text generator for an answer. Read
\* generously: the call made for the query expansion before retrieval is not
\* counted, and requests whose expansion raised are left out.
C7_CannedWhenNothingRetrieved ==
    (qa.outcome # "none" /\ qa.expansion # "raised") =>
        /\ qa.outcome = "canned"
        /\ qa.answer = CannedAnswer
        /\ "generate" \notin Range(qa.llm_calls)

BlocksTotal(relevant, included) ==
    LET Sum[n \in 0..Len(included)] ==
          IF n = 0 THEN 0 ELSE Sum[n - 1] + BlockLen(relevant[included[n]])
    IN Sum[Len(included)]

\* Ranks of the entries the budgeter left out.
Excluded == (Len(context.context_list) + 1)..Len(ranked_entries)

C9_RankedAboveThreshold ==
    search_result.outcome # "none" => search_result = SearchReturned(<<>>)

\* C10: when the generator fails during query expansion (it raises or returns
\* nothing), the request does not fail there: retrieval runs, with the original
\* query (read generously: the query alone, or followed by the bare separator
\* that line 337 appends to it).
C10_ExpansionFailureFallsBack ==
    (qa.outcome # "none" /\ qa.expansion \in {"raised", "empty"}) =>
        /\ qa.searched
        /\ qa.search_query \in {qa.query, RichQuery(qa.query, <<>>)}

====
